---- MODULE Spec2Model ----
(***************************************************************************)
(* RecipeSnapTab (src/components/RecipeSnapTab.tsx): the voice cooking     *)
(* session of the RecipeSnap tab, modelled as a state machine.             *)
(*                                                                         *)
(* React state and refs are variables.  Every async function is split at   *)
(* its awaits; the code between two awaits runs atomically (one JS task).  *)
(* A callback created by useCallback reads the state of the render that    *)
(* created it, so every invocation carries a Closure record with the       *)
(* values it captured.  useModelLoader returns a fresh object per render,  *)
(* so ensureVoiceModels and startVoiceCooking are re-created by every      *)
(* render and a click runs the callback of the latest render.              *)
(*                                                                         *)
(* AudioCapture, VAD and VoicePipeline belong to the RunAnywhere SDK and   *)
(* are modelled by their contract: stop() releases the microphone (also    *)
(* one whose start() is still pending), VAD keeps one speech buffer and    *)
(* one finished segment with pop semantics, VAD calls its subscribers in   *)
(* registration order, a failed pipeline stage rejects processTurn.        *)
(*                                                                         *)
(* Each processVoiceCommand invocation keeps two notes for the properties:  *)
(* stopped (stopVoiceCooking ran while its processTurn was in flight) and   *)
(* live (voice mode was on when its processTurn settled).  voiceResponse is *)
(* only displayed, no handler reads it, and it is left out.                *)
(***************************************************************************)
EXTENDS Integers, Sequences, FiniteSets, TLC

\* ------------------------------------------------------------------------
\* Bounds of the model
\* ------------------------------------------------------------------------
MaxStarts == 2        \* clicks on Start Voice Cooking
MaxTurns == 2         \* processVoiceCommand invocations
MaxSteps == 2         \* steps of a parsed recipe
MaxGenerations == 1   \* clicks on Generate Recipe
MaxChunks == 2        \* speech chunks of one utterance
ChunkSamples == 800   \* samples of a chunk (a chunk has this many or one more)
NavSteps == 3         \* steps of the recipe of the navigation scenarios
MaxCameras == 2       \* VideoCapture objects created
MaxScans == 2         \* clicks on Scan Ingredients
MaxScanGenerations == 2  \* clicks on Generate Recipe in the scanning scenarios

\* ------------------------------------------------------------------------
\* Program constants
\* ------------------------------------------------------------------------
MinSamples == 1600    \* segment.samples.length > 1600

NoRecipe == -1        \* recipe === null; otherwise recipe.steps.length
Null == 0             \* a ref holding null; mics and subscriptions count from 1
NoError == "null"

\* ------------------------------------------------------------------------
\* Texts.  A text is named by a string; Chars gives its characters, so that
\* toLowerCase() and includes() are computed as JavaScript computes them.
\* ------------------------------------------------------------------------
Transcripts == {"next step please"}
NavTranscripts == {"Go BACK", "what now"}
Replies == {"Moving on.", "Moving to the Next Step.", "Back to the previous one.",
            "Next up."}

Chars(s) ==
  CASE s = "" -> <<>>
    [] s = "next step please" -> <<"n", "e", "x", "t", " ", "s", "t", "e", "p", " ", "p", "l", "e", "a", "s", "e">>
    [] s = "Go BACK" -> <<"G", "o", " ", "B", "A", "C", "K">>
    [] s = "what now" -> <<"w", "h", "a", "t", " ", "n", "o", "w">>
    [] s = "Moving on." -> <<"M", "o", "v", "i", "n", "g", " ", "o", "n", ".">>
    [] s = "Moving to the Next Step." -> <<"M", "o", "v", "i", "n", "g", " ", "t", "o", " ", "t", "h", "e", " ", "N", "e", "x", "t", " ", "S", "t", "e", "p", ".">>
    [] s = "Back to the previous one." -> <<"B", "a", "c", "k", " ", "t", "o", " ", "t", "h", "e", " ", "p", "r", "e", "v", "i", "o", "u", "s", " ", "o", "n", "e", ".">>
    [] s = "Next up." -> <<"N", "e", "x", "t", " ", "u", "p", ".">>
    [] s = "next step" -> <<"n", "e", "x", "t", " ", "s", "t", "e", "p">>
    [] s = "next" -> <<"n", "e", "x", "t">>
    [] s = "previous" -> <<"p", "r", "e", "v", "i", "o", "u", "s">>
    [] s = "back" -> <<"b", "a", "c", "k">>

LowerChar(c) ==
  CASE c = "A" -> "a"
    [] c = "B" -> "b"
    [] c = "C" -> "c"
    [] c = "G" -> "g"
    [] c = "K" -> "k"
    [] c = "M" -> "m"
    [] c = "N" -> "n"
    [] c = "S" -> "s"
    [] OTHER -> c

\* String.prototype.toLowerCase
ToLowerCase(cs) == [i \in 1..Len(cs) |-> LowerChar(cs[i])]

\* String.prototype.includes
Includes(cs, phrase) ==
  \E i \in 0..(Len(cs) - Len(phrase)) : SubSeq(cs, i + 1, i + Len(phrase)) = phrase

\* text.toLowerCase().includes(phrase)
LowerIncludes(text, phrase) == Includes(ToLowerCase(Chars(text)), Chars(phrase))

\* ------------------------------------------------------------------------
\* State
\* ------------------------------------------------------------------------
VARIABLES
  state,             \* useState<RecipeState>
  recipe,            \* useState<Recipe | null>: NoRecipe or the number of steps
  currentStep,       \* useState(0)
  error,             \* useState<string | null>
  voiceTranscript,   \* useState('')
  customIngredients, \* useState(''): TRUE when it names an ingredient
  audioLevel,        \* useState(0)
  cameraActive,      \* useState(false)
  detectedIngredients, \* useState<string[]>([]): TRUE when the list is not empty
  captureRef,        \* useRef<VideoCapture | null>
  micRef,            \* useRef<AudioCapture | null>
  vadUnsub,          \* useRef<(() => void) | null>
  pipelineRef,       \* useRef<VoicePipeline | null>: TRUE when set
  modelsLoaded,      \* ModelManager.getLoadedModel of the three voice models
  mics,              \* the AudioCapture objects created so far
  subs,              \* VAD subscribers, named by the invocation that subscribed
  vad,               \* the VAD singleton
  starts,            \* startVoiceCooking invocations
  turns,             \* processVoiceCommand invocations
  timers,            \* pending setTimeout callbacks
  gens,              \* generateRecipe calls in flight
  cams,              \* the VideoCapture objects created so far
  scans,             \* scanIngredients calls in flight, each with its camera
  nGen,              \* clicks on Generate Recipe so far
  uttSamples,        \* samples the user has spoken in the current utterance
  uttListening,      \* the session was listening during all of it
  lastEnded,         \* samples of the segment whose Ended event was the latest
                     \* step, 0 if the latest step was another one
  lastIntro,         \* "played" or "failed" if the latest step was the end of the
                     \* introduction of a start, "" otherwise
  lastReply,         \* the reply whose onResponseComplete was the latest step,
                     \* "" if the latest step was another one
  afterStop,         \* stopVoiceCooking ran and Start was not clicked since
  mounted            \* <RecipeSnapTab /> is rendered (activeTab === 'recipe')

vars == <<state, recipe, currentStep, error, voiceTranscript,
          customIngredients, audioLevel, micRef, vadUnsub, pipelineRef, modelsLoaded,
          mics, subs, vad, starts, turns, timers, gens, nGen,
          uttSamples, uttListening, lastEnded, lastReply, afterStop,
          cameraActive, detectedIngredients, captureRef, cams, scans, lastIntro,
          mounted>>

reactVars == <<state, recipe, currentStep, error, voiceTranscript,
               customIngredients, audioLevel>>
refVars == <<micRef, vadUnsub, pipelineRef>>
audioVars == <<mics, subs, vad>>
userVars == <<uttSamples, uttListening>>
cameraVars == <<cameraActive, detectedIngredients, captureRef, cams, scans>>

Init ==
  /\ state = "idle"
  /\ recipe = NoRecipe
  /\ currentStep = 0
  /\ error = NoError
  /\ voiceTranscript = ""
  /\ customIngredients = FALSE
  /\ audioLevel = 0
  /\ micRef = Null
  /\ vadUnsub = Null
  /\ pipelineRef = FALSE
  /\ modelsLoaded = FALSE
  /\ mics = <<>>
  /\ subs = {}
  /\ vad = [speaking |-> FALSE, buffer |-> 0, segment |-> 0]
  /\ starts = <<>>
  /\ turns = <<>>
  /\ timers = {}
  /\ gens = 0
  /\ nGen = 0
  /\ uttSamples = 0
  /\ uttListening = FALSE
  /\ lastEnded = 0
  /\ lastReply = ""
  /\ lastIntro = ""
  /\ cameraActive = FALSE
  /\ detectedIngredients = FALSE
  /\ captureRef = Null
  /\ cams = <<>>
  /\ scans = <<>>
  /\ afterStop = FALSE
  /\ mounted = TRUE

\* The values a callback of the current render closes over
\* (dependency lists of processVoiceCommand, nextStep and prevStep).
Closure ==
  [state |-> state, recipe |-> recipe, currentStep |-> currentStep,
   voiceTranscript |-> voiceTranscript]

\* ------------------------------------------------------------------------
\* What the render shows (the controls a user can reach)
\* ------------------------------------------------------------------------
RecipeDisplayed ==
  mounted /\ recipe # NoRecipe /\ state \in {"recipe-ready", "cooking-voice"}
StartButtonShown == RecipeDisplayed /\ state # "cooking-voice"
StopButtonShown == RecipeDisplayed /\ state = "cooking-voice"
StepNavigationShown == RecipeDisplayed /\ state = "recipe-ready"
ListeningIndicatorShown == RecipeDisplayed /\ state = "cooking-voice"
GenerateButtonEnabled ==
  /\ mounted
  /\ recipe = NoRecipe
  /\ state # "generating-recipe"
  /\ detectedIngredients \/ customIngredients

\* ------------------------------------------------------------------------
\* Recipe generation, manual navigation, New Recipe
\* ------------------------------------------------------------------------
TypeIngredients ==
  /\ lastEnded' = 0
  /\ lastReply' = ""
  /\ lastIntro' = ""
  /\ UNCHANGED mounted
  /\ UNCHANGED cameraVars
  /\ mounted
  /\ recipe = NoRecipe
  /\ nGen < MaxGenerations
  /\ \E b \in BOOLEAN : b # customIngredients /\ customIngredients' = b
  /\ UNCHANGED <<state, recipe, currentStep, error, voiceTranscript, audioLevel>>
  /\ UNCHANGED <<refVars, audioVars, userVars, modelsLoaded, starts, turns, timers,
                 gens, nGen, afterStop>>

\* generateRecipe up to its first await; limit bounds the clicks
generateRecipe(limit) ==
  /\ lastEnded' = 0
  /\ lastReply' = ""
  /\ lastIntro' = ""
  /\ UNCHANGED mounted
  /\ UNCHANGED cameraVars
  /\ GenerateButtonEnabled
  /\ nGen < limit
  /\ state' = "generating-recipe"
  /\ error' = NoError
  /\ gens' = gens + 1
  /\ nGen' = nGen + 1
  /\ UNCHANGED <<recipe, currentStep, voiceTranscript, customIngredients, audioLevel>>
  /\ UNCHANGED <<refVars, audioVars, userVars, modelsLoaded, starts, turns, timers,
                 afterStop>>

GenerateRecipe == generateRecipe(MaxGenerations)

\* generateRecipe after llmLoader.ensure() and TextGeneration.generate settle;
\* parseRecipeText yields any number of steps, none included
GenerateSettles ==
  /\ lastEnded' = 0
  /\ lastReply' = ""
  /\ lastIntro' = ""
  /\ UNCHANGED mounted
  /\ UNCHANGED cameraVars
  /\ gens > 0
  /\ gens' = gens - 1
  /\ \/ \E n \in 0..MaxSteps :
          /\ recipe' = n
          /\ state' = "recipe-ready"
          /\ error' = error
     \/ /\ error' = "generation failed"
        /\ state' = "idle"
        /\ recipe' = recipe
  /\ UNCHANGED <<currentStep, voiceTranscript, customIngredients, audioLevel>>
  /\ UNCHANGED <<refVars, audioVars, userVars, modelsLoaded, starts, turns, timers,
                 nGen, afterStop>>

\* nextStep and prevStep of the render with closure c: the value currentStep takes
nextStep(c) ==
  IF c.recipe # NoRecipe /\ c.currentStep < c.recipe - 1
  THEN c.currentStep + 1
  ELSE currentStep

prevStep(c) ==
  IF c.currentStep > 0 THEN c.currentStep - 1 ELSE currentStep

\* the Next and Previous buttons
ClickNext ==
  /\ lastEnded' = 0
  /\ lastReply' = ""
  /\ lastIntro' = ""
  /\ UNCHANGED mounted
  /\ UNCHANGED cameraVars
  /\ StepNavigationShown
  /\ currentStep # recipe - 1
  /\ currentStep' = nextStep(Closure)
  /\ UNCHANGED <<state, recipe, error, voiceTranscript, customIngredients, audioLevel>>
  /\ UNCHANGED <<refVars, audioVars, userVars, modelsLoaded, starts, turns, timers,
                 gens, nGen, afterStop>>

ClickPrevious ==
  /\ lastEnded' = 0
  /\ lastReply' = ""
  /\ lastIntro' = ""
  /\ UNCHANGED mounted
  /\ UNCHANGED cameraVars
  /\ StepNavigationShown
  /\ currentStep # 0
  /\ currentStep' = prevStep(Closure)
  /\ UNCHANGED <<state, recipe, error, voiceTranscript, customIngredients, audioLevel>>
  /\ UNCHANGED <<refVars, audioVars, userVars, modelsLoaded, starts, turns, timers,
                 gens, nGen, afterStop>>

resetRecipe ==
  /\ lastEnded' = 0
  /\ lastReply' = ""
  /\ lastIntro' = ""
  /\ UNCHANGED mounted
  /\ StartButtonShown
  /\ recipe' = NoRecipe
  /\ detectedIngredients' = FALSE
  /\ UNCHANGED <<cameraActive, captureRef, cams, scans>>
  /\ customIngredients' = FALSE
  /\ currentStep' = 0
  /\ state' = "idle"
  /\ UNCHANGED <<error, voiceTranscript, audioLevel>>
  /\ UNCHANGED <<refVars, audioVars, userVars, modelsLoaded, starts, turns, timers,
                 gens, nGen, afterStop>>

\* ------------------------------------------------------------------------
\* Camera and ingredient scan
\* ------------------------------------------------------------------------
OpenCameraShown == mounted /\ recipe = NoRecipe /\ ~cameraActive
ScanButtonEnabled ==
  mounted /\ recipe = NoRecipe /\ cameraActive /\ state # "scanning"

\* captureRef.current?.isCapturing
IsCapturing(ref) == ref # Null /\ cams[ref].status = "capturing"

CamerasCapturing == {k \in 1..Len(cams) : cams[k].status = "capturing"}

\* startCamera up to its await of cam.start(): the Open Camera button
startCamera ==
  /\ lastEnded' = 0
  /\ lastReply' = ""
  /\ lastIntro' = ""
  /\ UNCHANGED mounted
  /\ OpenCameraShown
  /\ ~IsCapturing(captureRef)
  /\ Len(cams) < MaxCameras
  /\ cams' = Append(cams, [status |-> "starting"])
  /\ UNCHANGED <<cameraActive, detectedIngredients, captureRef, scans>>
  /\ UNCHANGED <<reactVars, refVars, audioVars, userVars, modelsLoaded, starts, turns,
                 timers, gens, nGen, afterStop>>

\* cam.start() settles: startCamera stores the camera and mounts its video
\* element, or cam.start() rejects
CameraStartSettles(k) ==
  /\ lastEnded' = 0
  /\ lastReply' = ""
  /\ lastIntro' = ""
  /\ UNCHANGED mounted
  /\ cams[k].status = "starting"
  /\ \/ /\ cams' = [cams EXCEPT ![k].status = "capturing"]
        /\ captureRef' = k
        /\ cameraActive' = TRUE
     \/ /\ cams' = [cams EXCEPT ![k].status = "failed"]
        /\ UNCHANGED <<captureRef, cameraActive>>
  /\ UNCHANGED <<detectedIngredients, scans>>
  /\ UNCHANGED <<reactVars, refVars, audioVars, userVars, modelsLoaded, starts, turns,
                 timers, gens, nGen, afterStop>>

\* scanIngredients up to its first await: the Scan Ingredients button.  With
\* no capturing camera it only starts one; otherwise the scan of the camera
\* captureRef holds begins.
scanIngredients ==
  /\ lastEnded' = 0
  /\ lastReply' = ""
  /\ lastIntro' = ""
  /\ UNCHANGED mounted
  /\ ScanButtonEnabled
  /\ IF ~IsCapturing(captureRef)
     THEN /\ Len(cams) < MaxCameras
          /\ cams' = Append(cams, [status |-> "starting"])
          /\ UNCHANGED <<scans, state, error>>
     ELSE /\ Len(scans) < MaxScans
          /\ state' = "scanning"
          /\ error' = NoError
          /\ scans' = Append(scans, [cam |-> captureRef, pc |-> "running"])
          /\ cams' = cams
  /\ UNCHANGED <<cameraActive, detectedIngredients, captureRef>>
  /\ UNCHANGED <<recipe, currentStep, voiceTranscript, customIngredients, audioLevel>>
  /\ UNCHANGED <<refVars, audioVars, userVars, modelsLoaded, starts, turns,
                 timers, gens, nGen, afterStop>>

\* scanIngredients after vlmLoader.ensure() and bridge.process settle: the
\* ingredients found (possibly none) are stored and the camera of this scan
\* is stopped, or a step failed and the error is shown
ScanSettles(i) ==
  /\ lastEnded' = 0
  /\ lastReply' = ""
  /\ lastIntro' = ""
  /\ UNCHANGED mounted
  /\ scans[i].pc = "running"
  /\ state' = "idle"
  /\ \/ /\ \E found \in BOOLEAN : detectedIngredients' = found
        /\ cams' = [cams EXCEPT ![scans[i].cam].status = "stopped"]
        /\ captureRef' = Null
        /\ cameraActive' = FALSE
        /\ scans' = [scans EXCEPT ![i].pc = "done"]
        /\ error' = error
     \/ /\ error' = "scan failed"
        /\ scans' = [scans EXCEPT ![i].pc = "failed"]
        /\ UNCHANGED <<detectedIngredients, cams, captureRef, cameraActive>>
  /\ UNCHANGED <<recipe, currentStep, voiceTranscript, customIngredients, audioLevel>>
  /\ UNCHANGED <<refVars, audioVars, userVars, modelsLoaded, starts, turns,
                 timers, gens, nGen, afterStop>>

\* ------------------------------------------------------------------------
\* SDK objects: AudioCapture and VAD
\* ------------------------------------------------------------------------
\* new AudioCapture(...) followed by start(): the microphone is being acquired
NewMic(owner) == [status |-> "starting", pending |-> TRUE, owner |-> owner]

Capturing == {m \in 1..Len(mics) : mics[m].status = "capturing"}

\* ref.current?.stop() on the AudioCapture objects ms
StopMic(ms, ref) ==
  IF ref = Null \/ ms[ref].status = "failed"
  THEN ms
  ELSE [ms EXCEPT ![ref].status = "stopped"]

\* vadUnsub.current?.() on the subscriber set ss
Unsubscribe(ss, ref) == ss \ {ref}

\* Mutant of VadReset: reset() leaves the state of the VAD as it is
VadResetKeepsBuffer == vad

\* VAD.reset()
VadReset == [speaking |-> FALSE, buffer |-> 0, segment |-> 0]

\* the subscriber VAD calls first
FirstSubscriber == CHOOSE h \in subs : \A g \in subs : h <= g

\* ------------------------------------------------------------------------
\* Voice session
\* ------------------------------------------------------------------------
TurnStages == {"stt", "llm", "tts", "play"}
InFlight == {t \in 1..Len(turns) : turns[t].pc \in TurnStages}
StartsPending == {s \in 1..Len(starts) : starts[s].pc # "done"}

\* The session as shown to the user is listening: voice mode is on, no start
\* is still under way and no turn is being processed.
SessionListening ==
  /\ state = "cooking-voice"
  /\ StartsPending = {}
  /\ \A t \in 1..Len(turns) : turns[t].pc = "done"

\* Mutants of SegmentAccepted: the length check left out; >= for >
SegmentAcceptedAnyLength(len) == len > 0
SegmentAcceptedFromMinimum(len) == len >= MinSamples

\* segment && segment.samples.length > 1600
SegmentAccepted(len) == len > MinSamples

\* Mutant of RestartsListening: the check of the state left out
RestartsListeningAlways(c) == TRUE

\* if (state === 'cooking-voice') of processVoiceCommand, in its closure c
RestartsListening(c) == c.state = "cooking-voice"

\* Mutant of NavigationTimer: the reply is matched without toLowerCase()
NavigationTimerCaseSensitive(c, text) ==
  IF Includes(Chars(text), Chars("next step")) \/ LowerIncludes(c.voiceTranscript, "next")
  THEN "next"
  ELSE IF Includes(Chars(text), Chars("previous")) \/ LowerIncludes(c.voiceTranscript, "back")
       THEN "prev"
       ELSE "none"

\* the navigation check of onResponseComplete in closure c: the timer it sets
NavigationTimer(c, text) ==
  IF LowerIncludes(text, "next step") \/ LowerIncludes(c.voiceTranscript, "next")
  THEN "next"
  ELSE IF LowerIncludes(text, "previous") \/ LowerIncludes(c.voiceTranscript, "back")
       THEN "prev"
       ELSE "none"

\* startVoiceCooking up to its first await
startVoiceCooking ==
  /\ lastEnded' = 0
  /\ lastReply' = ""
  /\ lastIntro' = ""
  /\ UNCHANGED mounted
  /\ UNCHANGED cameraVars
  /\ StartButtonShown
  /\ Len(starts) < MaxStarts
  /\ voiceTranscript' = ""
  /\ error' = NoError
  /\ afterStop' = FALSE
  /\ IF modelsLoaded
     THEN /\ state' = "cooking-voice"
          /\ starts' = Append(starts, [pc |-> "intro", env |-> Closure])
     ELSE /\ state' = state
          /\ starts' = Append(starts, [pc |-> "loading", env |-> Closure])
  /\ UNCHANGED <<recipe, currentStep, customIngredients, audioLevel>>
  /\ UNCHANGED <<refVars, audioVars, userVars, modelsLoaded, turns, timers, gens, nGen>>

\* startVoiceCooking after ensureVoiceModels() settles
EnsureVoiceModelsSettles(s) ==
  /\ lastEnded' = 0
  /\ lastReply' = ""
  /\ lastIntro' = ""
  /\ UNCHANGED mounted
  /\ UNCHANGED cameraVars
  /\ starts[s].pc = "loading"
  /\ \/ /\ modelsLoaded' = TRUE
        /\ state' = "cooking-voice"
        /\ error' = error
        /\ starts' = [starts EXCEPT ![s].pc = "intro"]
     \/ /\ error' = "Failed to load voice models"
        /\ starts' = [starts EXCEPT ![s].pc = "done"]
        /\ UNCHANGED <<modelsLoaded, state>>
  /\ UNCHANGED <<recipe, currentStep, voiceTranscript, customIngredients, audioLevel>>
  /\ UNCHANGED <<refVars, audioVars, userVars, turns, timers, gens, nGen, afterStop>>

\* Mutant of IntroContinues: a failed introduction ends startVoiceCooking
IntroContinuesIfPlayed(ok) == ok

\* try { synthesize, play } catch { console.error }: startVoiceCooking goes on
\* whether the introduction was played (ok) or failed
IntroContinues(ok) == TRUE

\* startVoiceCooking after the introductory synthesis and playback settle:
\* create the microphone, subscribe, start the microphone
IntroSettles(s, ok) ==
  /\ lastEnded' = 0
  /\ lastReply' = ""
  /\ lastIntro' = IF ok THEN "played" ELSE "failed"
  /\ UNCHANGED mounted
  /\ UNCHANGED cameraVars
  /\ starts[s].pc = "intro"
  /\ IF IntroContinues(ok)
     THEN /\ mics' = Append(mics, NewMic(<<"start", s>>))
          /\ micRef' = Len(mics) + 1
          /\ pipelineRef' = TRUE
          /\ vad' = VadReset
          /\ subs' = subs \cup {s}
          /\ vadUnsub' = s
          /\ starts' = [starts EXCEPT ![s].pc = "micstart"]
     ELSE /\ starts' = [starts EXCEPT ![s].pc = "done"]
          /\ UNCHANGED <<mics, micRef, pipelineRef, vad, subs, vadUnsub>>
  /\ UNCHANGED <<reactVars, userVars, modelsLoaded, turns, timers, gens, nGen, afterStop>>

\* mic.start() settles: the microphone is acquired, or DeviceUnavailable
MicStartSettles(m) ==
  /\ lastEnded' = 0
  /\ lastReply' = ""
  /\ lastIntro' = ""
  /\ UNCHANGED mounted
  /\ UNCHANGED cameraVars
  /\ mics[m].pending
  /\ \E ok \in BOOLEAN :
       mics' = [mics EXCEPT ![m].pending = FALSE,
                            ![m].status = IF mics[m].status = "starting"
                                          THEN (IF ok THEN "capturing" ELSE "failed")
                                          ELSE mics[m].status]
  /\ IF mics[m].owner[1] = "start"
     THEN /\ starts' = [starts EXCEPT ![mics[m].owner[2]].pc = "done"]
          /\ turns' = turns
     ELSE /\ turns' = [turns EXCEPT ![mics[m].owner[2]].pc = "done"]
          /\ starts' = starts
  /\ UNCHANGED <<reactVars, refVars, userVars, subs, vad, modelsLoaded, timers, gens,
                 nGen, afterStop>>

\* The microphone callbacks for one chunk of audio: every capturing
\* AudioCapture hands the chunk to VAD.processSamples and reports its level.
\* A speech chunk starts or extends the buffered utterance.  A silence chunk
\* ends it: VAD emits Ended and calls the onSpeechActivity handlers, the first
\* of which pops the segment and, if it is long enough, runs
\* processVoiceCommand up to its await of pipeline.processTurn.
Chunk(speech, n) ==
  /\ Len(turns) < MaxTurns
  /\ IF speech
     THEN /\ state = "cooking-voice" \/ Capturing # {}
          /\ uttSamples + n <= MaxChunks * (ChunkSamples + 1)
          /\ uttSamples' = uttSamples + n
          /\ uttListening' = (SessionListening /\ (uttSamples = 0 \/ uttListening))
     ELSE /\ n = 0
          /\ uttSamples > 0
          /\ uttSamples' = 0
          /\ uttListening' = FALSE
  /\ lastReply' = ""
  /\ lastIntro' = ""
  /\ UNCHANGED mounted
  /\ UNCHANGED cameraVars
  /\ lastEnded' = IF ~speech /\ Capturing # {} /\ vad.speaking THEN vad.buffer ELSE 0
  /\ audioLevel' = IF Capturing = {} THEN audioLevel ELSE (IF speech THEN 1 ELSE 0)
  /\ IF Capturing = {} \/ (~speech /\ ~vad.speaking)
     THEN UNCHANGED <<vad, mics, subs, turns>>
     ELSE IF speech
     THEN /\ vad' = [vad EXCEPT !.speaking = TRUE,
                                !.buffer = vad.buffer + Cardinality(Capturing) * n]
          /\ UNCHANGED <<mics, subs, turns>>
     ELSE IF subs = {}
     THEN /\ vad' = [speaking |-> FALSE, buffer |-> 0, segment |-> vad.buffer]
          /\ UNCHANGED <<mics, subs, turns>>
     ELSE /\ vad' = [speaking |-> FALSE, buffer |-> 0, segment |-> 0]
          /\ IF /\ SegmentAccepted(vad.buffer)
                /\ pipelineRef
                /\ starts[FirstSubscriber].env.recipe # NoRecipe
             THEN /\ mics' = StopMic(mics, micRef)
                  /\ subs' = Unsubscribe(subs, vadUnsub)
                  /\ turns' = Append(turns,
                       [pc |-> "stt", env |-> starts[FirstSubscriber].env,
                        transcript |-> "", stopped |-> FALSE, live |-> FALSE])
             ELSE UNCHANGED <<mics, subs, turns>>
  /\ UNCHANGED <<state, recipe, currentStep, error, voiceTranscript,
                 customIngredients>>
  /\ UNCHANGED <<refVars, modelsLoaded, starts, timers, gens, nGen, afterStop>>

\* pipeline.processTurn: transcription done, onTranscription(text)
Transcribed(t, text) ==
  /\ lastEnded' = 0
  /\ lastReply' = ""
  /\ lastIntro' = ""
  /\ UNCHANGED mounted
  /\ UNCHANGED cameraVars
  /\ turns[t].pc = "stt"
  /\ turns' = [turns EXCEPT ![t].pc = "llm", ![t].transcript = text]
  /\ voiceTranscript' = text
  /\ UNCHANGED <<state, recipe, currentStep, error, customIngredients,
                 audioLevel>>
  /\ UNCHANGED <<refVars, audioVars, userVars, modelsLoaded, starts, timers, gens, nGen,
                 afterStop>>

\* pipeline.processTurn: generation done, onResponseComplete
ResponseComplete(t) ==
  /\ lastEnded' = 0
  /\ lastIntro' = ""
  /\ UNCHANGED mounted
  /\ UNCHANGED cameraVars
  /\ turns[t].pc = "llm"
  /\ \E text \in Replies :
       /\ lastReply' = text
       /\ turns' = [turns EXCEPT ![t].pc = "tts"]
       /\ timers' = IF NavigationTimer(turns[t].env, text) = "none"
                    THEN timers
                    ELSE timers \cup {[turn |-> t,
                                       kind |-> NavigationTimer(turns[t].env, text)]}
  /\ UNCHANGED <<state, recipe, currentStep, error, voiceTranscript, customIngredients,
                 audioLevel>>
  /\ UNCHANGED <<refVars, audioVars, userVars, modelsLoaded, starts, gens, nGen,
                 afterStop>>

\* pipeline.processTurn: synthesis done, onSynthesisComplete starts the playback
SynthesisComplete(t) ==
  /\ lastEnded' = 0
  /\ lastReply' = ""
  /\ lastIntro' = ""
  /\ UNCHANGED mounted
  /\ UNCHANGED cameraVars
  /\ turns[t].pc = "tts"
  /\ turns' = [turns EXCEPT ![t].pc = "play"]
  /\ UNCHANGED <<reactVars, refVars, audioVars, userVars, modelsLoaded, starts, timers,
                 gens, nGen, afterStop>>

\* processVoiceCommand after processTurn settles: it resolves once the
\* playback is over, or a stage fails and it rejects; then the restart of
\* listening, up to the await of mic.start
TurnSettles(t, ok) ==
  /\ lastEnded' = 0
  /\ lastReply' = ""
  /\ lastIntro' = ""
  /\ UNCHANGED mounted
  /\ UNCHANGED cameraVars
  /\ IF ok THEN turns[t].pc = "play" ELSE turns[t].pc \in TurnStages
  /\ IF ok
     THEN /\ voiceTranscript' = turns[t].transcript
          /\ error' = error
     ELSE /\ error' = "stage failed"
          /\ UNCHANGED <<voiceTranscript>>
  /\ IF RestartsListening(turns[t].env)
     THEN /\ mics' = Append(mics, NewMic(<<"turn", t>>))
          /\ micRef' = Len(mics) + 1
          /\ vad' = VadReset
          /\ turns' = [turns EXCEPT ![t].pc = "micstart",
                                      ![t].live = (state = "cooking-voice")]
     ELSE /\ turns' = [turns EXCEPT ![t].pc = "done",
                                      ![t].live = (state = "cooking-voice")]
          /\ UNCHANGED <<mics, micRef, vad>>
  /\ UNCHANGED <<state, recipe, currentStep, customIngredients, audioLevel>>
  /\ UNCHANGED <<vadUnsub, pipelineRef, subs, userVars, modelsLoaded, starts, timers,
                 gens, nGen, afterStop>>

\* setTimeout(() => nextStep(), 1000) or setTimeout(() => prevStep(), 1000)
\* fires: nextStep and prevStep are those of the turn's closure
TimerFires(tm) ==
  /\ lastEnded' = 0
  /\ lastReply' = ""
  /\ lastIntro' = ""
  /\ UNCHANGED mounted
  /\ UNCHANGED cameraVars
  /\ tm \in timers
  /\ timers' = timers \ {tm}
  /\ currentStep' = IF tm.kind = "next"
                    THEN nextStep(turns[tm.turn].env)
                    ELSE prevStep(turns[tm.turn].env)
  /\ UNCHANGED <<state, recipe, error, voiceTranscript, customIngredients,
                 audioLevel>>
  /\ UNCHANGED <<refVars, audioVars, userVars, modelsLoaded, starts, turns, gens, nGen,
                 afterStop>>

\* The part of the state stopVoiceCooking reads and writes
Session ==
  [mics |-> mics, subs |-> subs, micRef |-> micRef, vadUnsub |-> vadUnsub,
   state |-> state, audioLevel |-> audioLevel]

\* Mutant of stopEffect: the button toggles voice mode
stopEffectToggle(S) ==
  [S EXCEPT !.mics = StopMic(S.mics, S.micRef),
            !.subs = Unsubscribe(S.subs, S.vadUnsub),
            !.state = IF S.state = "cooking-voice" THEN "recipe-ready" ELSE "cooking-voice",
            !.audioLevel = 0]

\* stopVoiceCooking as a function of that part
stopEffect(S) ==
  [S EXCEPT !.mics = StopMic(S.mics, S.micRef),
            !.subs = Unsubscribe(S.subs, S.vadUnsub),
            !.state = "recipe-ready",
            !.audioLevel = 0]

\* the Stop Voice Mode button
stopVoiceCooking ==
  /\ lastEnded' = 0
  /\ lastReply' = ""
  /\ lastIntro' = ""
  /\ UNCHANGED mounted
  /\ UNCHANGED cameraVars
  /\ StopButtonShown
  /\ mics' = stopEffect(Session).mics
  /\ subs' = stopEffect(Session).subs
  /\ state' = stopEffect(Session).state
  /\ audioLevel' = stopEffect(Session).audioLevel
  /\ afterStop' = TRUE
  /\ turns' = [t \in 1..Len(turns) |->
                 IF t \in InFlight THEN [turns[t] EXCEPT !.stopped = TRUE] ELSE turns[t]]
  /\ UNCHANGED <<recipe, currentStep, error, voiceTranscript,
                 customIngredients>>
  /\ uttListening' = FALSE
  /\ UNCHANGED <<refVars, vad, uttSamples, modelsLoaded, starts, timers, gens, nGen>>

\* The user switches to another tab: <RecipeSnapTab /> is unmounted and the
\* cleanup of its effect runs.  Promises and timers that are pending go on;
\* what they write to the state of the unmounted component is not rendered.
Unmount ==
  /\ lastEnded' = 0
  /\ lastReply' = ""
  /\ lastIntro' = ""
  /\ mounted
  /\ mounted' = FALSE
  /\ cams' = IF captureRef = Null
             THEN cams
             ELSE [cams EXCEPT ![captureRef].status = "stopped"]
  /\ mics' = StopMic(mics, micRef)
  /\ subs' = Unsubscribe(subs, vadUnsub)
  /\ uttListening' = FALSE
  /\ UNCHANGED <<cameraActive, detectedIngredients, captureRef, scans>>
  /\ UNCHANGED <<reactVars, refVars, vad, uttSamples, modelsLoaded, starts, turns,
                 timers, gens, nGen, afterStop>>

\* ------------------------------------------------------------------------
\* Properties
\* ------------------------------------------------------------------------
\* VAD emits Ended in this step: a silence chunk reaches VAD while it buffers speech
SpeechEnded == uttSamples > 0 /\ uttSamples' = 0 /\ Capturing # {} /\ vad.speaking

\* the microphone that the completion of turn t started, if any
RestartedBy(t) == {m \in 1..Len(mics) : mics[m].owner = <<"turn", t>>}

NoDeviceFailure == \A m \in 1..Len(mics) : mics[m].status # "failed"

\* C1: serialization - no second processTurn call is started while one is
\* still in flight: at most one call is in flight at any time.
C1_Serialization == Cardinality(InFlight) <= 1

\* C2: capture is paused while a turn is in flight - whenever a processTurn
\* call has begun and not completed, no microphone is capturing and no
\* speech-activity subscription is registered.
C2_CapturePaused == InFlight # {} => (Capturing = {} /\ subs = {})

\* C3: after a turn completes (success or failure) with voice mode on and
\* without a stop in the interim, the orchestrator re-enters Listening: the
\* completion has started a microphone capture again.
C3_ListeningResumes ==
  \A t \in 1..Len(turns) :
    (turns[t].pc \in {"micstart", "done"} /\ turns[t].live /\ ~turns[t].stopped)
      => RestartedBy(t) # {}

\* C4: every valid utterance is driven through the pipeline exactly once -
\* an utterance longer than the minimum, spoken entirely while the session
\* is listening (also after an earlier turn has completed) with the
\* microphone acquired, starts exactly one processTurn call when it ends.
C4_EveryUtteranceOnce ==
  [][(/\ uttSamples > MinSamples
      /\ uttSamples' = 0
      /\ uttListening
      /\ SessionListening
      /\ NoDeviceFailure)
       => Len(turns') = Len(turns) + 1]_vars

\* C5: noise rejection - when an utterance of fewer than 1600 samples ends,
\* no processTurn call is started and the session stays in Listening: the
\* microphones, the subscriptions and the step pointer are unchanged.
C5_NoiseRejected ==
  [][(SpeechEnded /\ vad.buffer < MinSamples)
       => (/\ turns' = turns
           /\ mics' = mics
           /\ subs' = subs
           /\ currentStep' = currentStep)]_vars

\* C5 witness: an utterance of fewer than 1600 samples has ended, no turn
\* was started, and the microphone and the subscription are still there.
C5_Witness ==
  /\ lastEnded > 0
  /\ lastEnded < MinSamples
  /\ turns = <<>>
  /\ Capturing # {}
  /\ subs # {}

\* C6 as stated: an utterance of at least 1600 samples that ends while a
\* handler is subscribed is handed to processTurn.
C6_AtLeastMinimumProcessed ==
  [][(SpeechEnded /\ subs # {} /\ vad.buffer >= MinSamples)
       => Len(turns') = Len(turns) + 1]_vars

\* C6 amended: an utterance that ends while a handler is subscribed is handed
\* to processTurn exactly when it has more than 1600 samples; one of 1600
\* samples or fewer is discarded.
C6_AboveMinimumProcessed ==
  [][(SpeechEnded /\ subs # {})
       => ((Len(turns') = Len(turns) + 1) <=> (vad.buffer > MinSamples))]_vars

\* C6 witness: an utterance of more than 1600 samples has ended and its
\* processTurn call is in flight.
C6_Witness ==
  /\ lastEnded > MinSamples
  /\ Len(turns) = 1
  /\ turns[1].pc = "stt"

\* C7: stopping releases capture - from the moment stopVoiceCooking returns
\* until Start Voice Cooking is clicked again, no microphone is capturing and
\* no speech-activity subscription is registered.
C7_StopReleasesCapture == afterStop => (Capturing = {} /\ subs = {})

\* C8: a turn during which the session was stopped runs to completion, and
\* its completion does not re-enter Listening: it starts no microphone.
C8_StoppedTurnDoesNotResume ==
  \A t \in 1..Len(turns) :
    turns[t].stopped => (turns[t].pc # "micstart" /\ RestartedBy(t) = {})

\* C8 witness: a turn was stopped in flight, has run to completion, and the
\* session is still stopped with no microphone capturing.
C8_Witness ==
  /\ \E t \in 1..Len(turns) : turns[t].stopped /\ turns[t].pc = "done"
  /\ afterStop
  /\ state = "recipe-ready"
  /\ Capturing = {}

\* C9: the result of a turn during which the session was stopped is
\* discarded - the timer that turn set never changes the step pointer.
C9_StoppedTurnDiscarded ==
  [][\A tm \in timers \ timers' :
       turns[tm.turn].stopped => currentStep' = currentStep]_vars

\* the stopped state: voice mode is off, the level is zero, the referenced
\* microphone is not capturing and the referenced subscription is removed
Stopped(S) ==
  /\ S.state = "recipe-ready"
  /\ S.audioLevel = 0
  /\ (S.micRef # Null => S.mics[S.micRef].status # "capturing")
  /\ S.vadUnsub \notin S.subs

\* C10: idempotent stop - in every state, also one where voice mode was never
\* started, stopVoiceCooking ends in the stopped state and a second
\* stopVoiceCooking right after it changes nothing.
C10_IdempotentStop ==
  /\ Stopped(stopEffect(Session))
  /\ stopEffect(stopEffect(Session)) = stopEffect(Session)

\* C10 witness: stopVoiceCooking has run on a session with a capturing
\* microphone, and running it again would change nothing.
C10_Witness ==
  /\ afterStop
  /\ micRef # Null
  /\ mics[micRef].status = "stopped"
  /\ ~mics[micRef].pending
  /\ stopEffect(Session) = Session

\* onResponseComplete of turn t runs in this step
Replied(t) == turns[t].pc = "llm" /\ turns'[t].pc = "tts"

\* processTurn of turn t rejects in this step, at one of the stages
FailsAt(t, stages) == turns[t].pc \in stages /\ turns'[t].pc \in {"micstart", "done"}

\* text holds one of the phrases next, back, previous in any case
RecognizedPhrase(text) ==
  \/ LowerIncludes(text, "next")
  \/ LowerIncludes(text, "back")
  \/ LowerIncludes(text, "previous")

NextTimer(t) == [turn |-> t, kind |-> "next"]
PrevTimer(t) == [turn |-> t, kind |-> "prev"]

\* C11: happy path - when the reply of a turn is complete, the turn's own
\* transcript contains "next" and the step pointer is not at the last step,
\* the step to the next instruction is scheduled for that turn.
C11_NextByTranscript ==
  [][\A t \in 1..Len(turns) :
       (/\ Replied(t)
        /\ LowerIncludes(turns[t].transcript, "next")
        /\ recipe # NoRecipe
        /\ currentStep < recipe - 1)
         => NextTimer(t) \in timers']_vars

\* C12: transcript mapping - when the reply of a turn is complete, the turn's
\* own transcript contains "back" or "previous" and no "next", and the step
\* pointer is above 0, the step back is scheduled for that turn.
C12_PreviousByTranscript ==
  [][\A t \in 1..Len(turns) :
       (/\ Replied(t)
        /\ LowerIncludes(turns[t].transcript, "back")
             \/ LowerIncludes(turns[t].transcript, "previous")
        /\ ~LowerIncludes(turns[t].transcript, "next")
        /\ currentStep > 0)
         => PrevTimer(t) \in timers']_vars

\* C13 as stated: reply fallback with the phrases of the transcript - when
\* neither the turn's transcript nor the transcript the handler reads holds a
\* recognized phrase, a reply containing "next" schedules the step forward
\* and a reply containing "back" or "previous" (and no "next") the step back.
C13_ReplySamePhrases ==
  [][\A t \in 1..Len(turns) :
       (/\ Replied(t)
        /\ ~RecognizedPhrase(turns[t].transcript)
        /\ ~RecognizedPhrase(turns[t].env.voiceTranscript))
         => /\ LowerIncludes(lastReply', "next") => NextTimer(t) \in timers'
            /\ (/\ ~LowerIncludes(lastReply', "next")
                /\ LowerIncludes(lastReply', "back")
                     \/ LowerIncludes(lastReply', "previous"))
                 => PrevTimer(t) \in timers']_vars

\* C13 amended: the reply is checked for "next step" and for "previous" - a
\* reply containing "next step" (in any case) schedules the step forward
\* whatever the transcript; a reply containing "previous" and not "next step"
\* schedules the step back unless the transcript the handler reads contains
\* "next"; a reply with neither phrase schedules nothing by itself.
C13_ReplyPhrases ==
  [][\A t \in 1..Len(turns) :
       Replied(t)
         => /\ LowerIncludes(lastReply', "next step") => NextTimer(t) \in timers'
            /\ (/\ ~LowerIncludes(lastReply', "next step")
                /\ LowerIncludes(lastReply', "previous")
                /\ ~LowerIncludes(turns[t].env.voiceTranscript, "next"))
                 => PrevTimer(t) \in timers'
            /\ (/\ ~LowerIncludes(lastReply', "next step")
                /\ ~LowerIncludes(lastReply', "previous")
                /\ ~RecognizedPhrase(turns[t].env.voiceTranscript))
                 => timers' = timers]_vars

\* C13 witness: a turn whose transcript holds no recognized phrase got the
\* reply "Moving to the Next Step." and the step forward is scheduled.
C13_Witness ==
  /\ lastReply = "Moving to the Next Step."
  /\ \E t \in 1..Len(turns) :
       /\ turns[t].pc = "tts"
       /\ turns[t].transcript = "what now"
       /\ NextTimer(t) \in timers

\* C14: when neither the turn's transcript nor its reply holds a recognized
\* phrase, the command is None: the completed reply schedules no step.
C14_NoPhraseNoCommand ==
  [][\A t \in 1..Len(turns) :
       (/\ Replied(t)
        /\ ~RecognizedPhrase(turns[t].transcript)
        /\ ~RecognizedPhrase(lastReply'))
         => timers' = timers]_vars

\* C15: navigation clamp - a Next applied while the step pointer is at the
\* last step, and a Previous applied while it is at 0, leave it unchanged.
C15_NavigationClamp ==
  [][\A tm \in timers \ timers' :
       /\ (tm.kind = "next" /\ recipe # NoRecipe /\ currentStep = recipe - 1)
            => currentStep' = currentStep
       /\ (tm.kind = "prev" /\ currentStep = 0)
            => currentStep' = currentStep]_vars

\* C16: the step pointer is mutated only between turns - no step changes it
\* while a processTurn call is in flight.
C16_PointerFixedDuringTurn ==
  [][InFlight # {} => currentStep' = currentStep]_vars

\* C17: capture is not restarted until the turn's result has been applied -
\* no microphone is started while a step scheduled by a turn is still to be
\* applied to the step pointer.
C17_AppliedBeforeRestart ==
  [][Len(mics') > Len(mics) => timers = {}]_vars

\* C18: synthesis failure - when the synthesis stage of a turn fails with
\* voice mode on, the error is surfaced, the step the turn scheduled stays
\* scheduled, and listening resumes: a microphone is started.
C18_SynthesisFailureResumes ==
  [][\A t \in 1..Len(turns) :
       (FailsAt(t, {"tts"}) /\ state = "cooking-voice")
         => /\ error' # NoError
            /\ timers' = timers
            /\ Len(mics') = Len(mics) + 1]_vars

\* C19: when the transcription or generation stage of a turn fails with voice
\* mode on, the error is surfaced, the turn leaves the step pointer alone and
\* has scheduled no step, the transcript stays displayed, and listening
\* resumes: a microphone is started.
C19_EarlyFailureResumes ==
  [][\A t \in 1..Len(turns) :
       (FailsAt(t, {"stt", "llm"}) /\ state = "cooking-voice")
         => /\ error' # NoError
            /\ currentStep' = currentStep
            /\ \A tm \in timers' : tm.turn # t
            /\ voiceTranscript' = voiceTranscript
            /\ state' = "cooking-voice"
            /\ Len(mics') = Len(mics) + 1]_vars

\* C20: DeviceUnavailable - when the microphone of the latest start could not
\* be acquired, voice mode is not left on with the Listening indicator
\* shown, and the failure is surfaced in the error state.
C20_DeviceUnavailable ==
  \A m \in 1..Len(mics) :
    (/\ mics[m].status = "failed"
     /\ mics[m].owner[1] = "start"
     /\ micRef = m
     /\ StartsPending = {}
     /\ ~afterStop)
      => (~ListeningIndicatorShown /\ error # NoError)

\* C21: single microphone - at most one AudioCapture is capturing, and a
\* capturing one is the one micRef refers to.
C21_SingleMicrophone ==
  /\ Cardinality(Capturing) <= 1
  /\ \A m \in Capturing : m = micRef

\* a microphone is created and started in this step
MicStarted == Len(mics') = Len(mics) + 1

\* C23: the Segmenter is reset before each new listening phase - every step
\* that starts a microphone resets the VAD in the same task, so the VAD
\* holds no utterance, whole or partial, when the start is issued.
C23_ResetBeforeListening ==
  [][MicStarted => (vad' = [speaking |-> FALSE, buffer |-> 0, segment |-> 0])]_vars

\* C23 witness: the user is in the middle of an utterance, a microphone has
\* just been started by a second start, and the VAD holds nothing of it.
C23_Witness ==
  /\ lastIntro # ""
  /\ Len(mics) = 2
  /\ mics[2].status = "starting"
  /\ uttSamples > 0
  /\ vad.buffer = 0
  /\ ~vad.speaking

\* C24: an explicit stop discards any buffered utterance - right after
\* stopVoiceCooking the VAD holds no buffered or partial utterance.
C24_StopDiscardsUtterance ==
  [][(~afterStop /\ afterStop')
       => (vad'.buffer = 0 /\ vad'.segment = 0 /\ ~vad'.speaking)]_vars

\* C25: context snapshot - the step number and the step count a turn puts in
\* its system prompt are those of the step pointer and of the recipe at the
\* moment the turn starts.
C25_ContextSnapshot ==
  [][Len(turns') = Len(turns) + 1
       => (/\ turns'[Len(turns')].env.currentStep = currentStep
           /\ turns'[Len(turns')].env.recipe = recipe)]_vars

\* C26: the navigation command is a pure function of the turn's own
\* transcript and reply - two turns with the same transcript are given the
\* same command for every reply.
C26_CommandPure ==
  \A t1, t2 \in 1..Len(turns) :
    (/\ turns[t1].pc # "stt"
     /\ turns[t2].pc # "stt"
     /\ turns[t1].transcript = turns[t2].transcript)
      => \A text \in Replies :
           NavigationTimer(turns[t1].env, text) = NavigationTimer(turns[t2].env, text)

\* C27: the displayed state tells Listening from Processing - while the
\* Listening indicator is shown the microphone micRef refers to is capturing,
\* the subscription of vadUnsub is registered and no turn is in flight.
C27_ListeningShownMeansListening ==
  ListeningIndicatorShown
    => (/\ micRef # Null
        /\ micRef \in Capturing
        /\ vadUnsub \in subs
        /\ InFlight = {})

\* the introduction of start s ends in this step
IntroEnded(s) == starts[s].pc = "intro" /\ starts'[s].pc # "intro"

\* C28: a failure of the introductory synthesis or playback does not keep
\* the session from continuing - in the step in which the introduction
\* fails the microphone is created and started and the handler subscribed.
C28_IntroFailureContinues ==
  [][\A s \in 1..Len(starts) :
       (IntroEnded(s) /\ lastIntro' = "failed")
         => (/\ MicStarted
             /\ mics'[Len(mics')].status = "starting"
             /\ micRef' = Len(mics')
             /\ s \in subs'
             /\ starts'[s].pc = "micstart")]_vars

\* C28 witness: the introduction has just failed and the microphone is being
\* started with the handler subscribed.
C28_Witness ==
  /\ lastIntro = "failed"
  /\ micRef # Null
  /\ mics[micRef].status = "starting"
  /\ vadUnsub \in subs
  /\ state = "cooking-voice"

\* C29: the loading state prevents multiple generations - at most one
\* generateRecipe call is in flight.
C29_SingleGeneration == gens <= 1

\* C30: camera cleanup after scan - when a scan completes successfully no
\* VideoCapture created by the component is capturing any more.
C30_CameraCleanup ==
  [][\A i \in 1..Len(scans) :
       (scans[i].pc = "running" /\ scans'[i].pc = "done")
         => CamerasCapturing' = {}]_vars

\* C31: one utterance in flight across restarts - no processVoiceCommand
\* call starts a turn while the processTurn call of an earlier turn is still
\* running, also after a stop and a new start.
C31_NoTurnStartsDuringTurn ==
  [][Len(turns') > Len(turns) => InFlight = {}]_vars

\* C32: each navigation command is applied exactly once - a turn schedules
\* at most one step, a scheduled step moves the step pointer by at most one,
\* and a Next or a Previous applied away from the boundary moves it by
\* exactly one from the value it has when the step is applied.
C32_AppliedExactlyOnce ==
  [][/\ \A tm \in timers \ timers' :
          /\ currentStep' - currentStep \in {-1, 0, 1}
          /\ (tm.kind = "next" /\ recipe # NoRecipe /\ currentStep < recipe - 1)
               => currentStep' = currentStep + 1
          /\ (tm.kind = "prev" /\ currentStep > 0)
               => currentStep' = currentStep - 1
     /\ \A tm1, tm2 \in timers' : tm1.turn = tm2.turn => tm1 = tm2]_vars

\* C33: step-pointer range - whenever a recipe is present the step pointer
\* is the index of one of its steps.
C33_StepPointerInRange ==
  recipe # NoRecipe => currentStep \in 0..(recipe - 1)

\* C35: no dead UI state - whenever a recipe is present the state is one of
\* those in which the recipe is rendered.
C35_RecipeRendered ==
  recipe # NoRecipe => state \in {"recipe-ready", "cooking-voice"}

\* C36: voice mode always has a recipe - whenever the state is
\* 'cooking-voice' or a microphone is capturing, a recipe is present.
C36_VoiceModeHasRecipe ==
  (state = "cooking-voice" \/ Capturing # {}) => recipe # NoRecipe

\* C34: resources are released on every exit path - once the component is
\* unmounted no microphone it created is capturing and no speech-activity
\* subscription it made is registered.
C34_ReleasedAfterUnmount ==
  ~mounted => (Capturing = {} /\ subs = {})

Next ==
  \/ TypeIngredients
  \/ GenerateRecipe
  \/ GenerateSettles
  \/ ClickNext
  \/ ClickPrevious
  \/ resetRecipe
  \/ startVoiceCooking
  \/ \E s \in 1..Len(starts) : EnsureVoiceModelsSettles(s)
  \/ \E s \in 1..Len(starts), ok \in BOOLEAN : IntroSettles(s, ok)
  \/ \E m \in 1..Len(mics) : MicStartSettles(m)
  \/ \E n \in {ChunkSamples, ChunkSamples + 1} : Chunk(TRUE, n)
  \/ Chunk(FALSE, 0)
  \/ \E t \in 1..Len(turns), text \in Transcripts : Transcribed(t, text)
  \/ \E t \in 1..Len(turns) : ResponseComplete(t)
  \/ \E t \in 1..Len(turns) : SynthesisComplete(t)
  \/ \E t \in 1..Len(turns), ok \in BOOLEAN : TurnSettles(t, ok)
  \/ \E tm \in timers : TimerFires(tm)
  \/ stopVoiceCooking

Spec == Init /\ [][Next]_vars

\* ------------------------------------------------------------------------
\* Scenarios that begin with a recipe on display.  The voice models are
\* loaded already (ModelManager is shared with the other tabs of the app).
\* ------------------------------------------------------------------------
\* a recipe of n steps has been generated and is shown
InitReady(n) ==
  /\ state = "recipe-ready"
  /\ recipe = n
  /\ currentStep = 0
  /\ error = NoError
  /\ voiceTranscript = ""
  /\ customIngredients = TRUE
  /\ audioLevel = 0
  /\ micRef = Null
  /\ vadUnsub = Null
  /\ pipelineRef = FALSE
  /\ modelsLoaded = TRUE
  /\ mics = <<>>
  /\ subs = {}
  /\ vad = [speaking |-> FALSE, buffer |-> 0, segment |-> 0]
  /\ starts = <<>>
  /\ turns = <<>>
  /\ timers = {}
  /\ gens = 0
  /\ nGen = MaxGenerations
  /\ uttSamples = 0
  /\ uttListening = FALSE
  /\ lastEnded = 0
  /\ lastReply = ""
  /\ lastIntro = ""
  /\ cameraActive = FALSE
  /\ detectedIngredients = FALSE
  /\ captureRef = Null
  /\ cams = <<>>
  /\ scans = <<>>
  /\ afterStop = FALSE
  /\ mounted = TRUE

\* step navigation and the voice session, the recogniser returning one of texts
NextReady(texts) ==
  \/ ClickNext
  \/ ClickPrevious
  \/ startVoiceCooking
  \/ \E s \in 1..Len(starts), ok \in BOOLEAN : IntroSettles(s, ok)
  \/ \E m \in 1..Len(mics) : MicStartSettles(m)
  \/ Chunk(TRUE, ChunkSamples + 1)
  \/ Chunk(FALSE, 0)
  \/ \E t \in 1..Len(turns), text \in texts : Transcribed(t, text)
  \/ \E t \in 1..Len(turns) : ResponseComplete(t)
  \/ \E t \in 1..Len(turns) : SynthesisComplete(t)
  \/ \E t \in 1..Len(turns), ok \in BOOLEAN : TurnSettles(t, ok)
  \/ \E tm \in timers : TimerFires(tm)
  \/ stopVoiceCooking

\* a recipe of NavSteps steps
InitNavigation == InitReady(NavSteps)
NextNavigation == NextReady(Transcripts)
SpecNavigation == InitNavigation /\ [][NextNavigation]_vars

\* a recipe of MaxSteps steps, the recogniser returning any of NavTranscripts
InitCommands == InitReady(MaxSteps)
NextCommands == NextReady(NavTranscripts)
SpecCommands == InitCommands /\ [][NextCommands]_vars
\* ------------------------------------------------------------------------
\* Scenarios of the first two steps of the tab: camera, ingredient scan and
\* recipe generation.
\* ------------------------------------------------------------------------
NextIngredients ==
  \/ TypeIngredients
  \/ startCamera
  \/ \E k \in 1..Len(cams) : CameraStartSettles(k)
  \/ scanIngredients
  \/ \E i \in 1..Len(scans) : ScanSettles(i)
  \/ generateRecipe(MaxScanGenerations)
  \/ GenerateSettles

SpecIngredients == Init /\ [][NextIngredients]_vars

\* ------------------------------------------------------------------------
\* The voice session with the user leaving the tab at any moment
\* ------------------------------------------------------------------------
InitUnmount == InitReady(MaxSteps)
NextUnmount == NextReady(Transcripts) \/ Unmount
SpecUnmount == InitUnmount /\ [][NextUnmount]_vars
====
